---- MODULE Spec2Model ----
(***************************************************************************)
(* Gaussian beam through a thin lens: the update cycle of                  *)
(* src/visualization.js (updateVisualization, drawCanvas, drawBeam,        *)
(* drawAnnotationLine) as a state machine.                                 *)
(*                                                                         *)
(* JavaScript numbers are binary floating-point values.  They are modelled *)
(* here as binary floating-point values too: sign, integer significand of  *)
(* Precision bits, exponent, plus NaN and the two infinities, every        *)
(* operation rounding its exact result to nearest, ties to even.  The      *)
(* significand is narrower than a double's 53 bits and the exponent is not *)
(* bounded (no overflow to Infinity or underflow to 0 of finite values).   *)
(*                                                                         *)
(* JavaScript evaluates an argument once, before the call.  Val({F(x) :    *)
(* x \in {e}}) says the same here: e is evaluated once, to the value x,    *)
(* and F is applied to that value.                                         *)
(***************************************************************************)
EXTENDS Integers, Sequences, FiniteSets, TLC

\* Bits of the significand of a modelled number.
Precision == 12

\* The element of a one-element set.
Val(S) == CHOOSE v \in S : TRUE

-----------------------------------------------------------------------------
(* Numbers                                                                 *)

NaN == [k |-> "nan", s |-> 1, m |-> 0, e |-> 0]
PosInf == [k |-> "inf", s |-> 1, m |-> 0, e |-> 0]
NegInf == [k |-> "inf", s |-> -1, m |-> 0, e |-> 0]
Zero == [k |-> "fin", s |-> 1, m |-> 0, e |-> 0]

Inf(sign) == IF sign < 0 THEN NegInf ELSE PosInf

isNaN(a) == a.k = "nan"
IsFin(a) == a.k = "fin"
IsInf(a) == a.k = "inf"
IsZero(a) == a.k = "fin" /\ a.m = 0

\* The number of bits of n >= 0 (0 for n = 0).
RECURSIVE BitLen(_)
BitLen(n) == IF n = 0 THEN 0 ELSE 1 + BitLen(n \div 2)

\* Round for n of bl bits.
RoundBits(sign, n, e, sticky, bl) ==
  IF n = 0 THEN Zero
  ELSE
    IF bl <= Precision
    THEN [k |-> "fin", s |-> sign, m |-> n * 2^(Precision - bl),
          e |-> e - (Precision - bl)]
    ELSE LET sh == bl - Precision
             q == n \div 2^sh
             r == n % 2^sh
             half == 2^(sh - 1)
             up == r > half \/ (r = half /\ (sticky = 1 \/ q % 2 = 1))
             m1 == IF up THEN q + 1 ELSE q
         IN IF m1 = 2^Precision
            THEN [k |-> "fin", s |-> sign, m |-> 2^(Precision - 1), e |-> e + sh + 1]
            ELSE [k |-> "fin", s |-> sign, m |-> m1, e |-> e + sh]

\* sign * (n + a fraction in (0,1) when sticky = 1) * 2^e, rounded to
\* Precision bits, to nearest, ties to even.
Round(sign, n, e, sticky) ==
  Val({RoundBits(sign, n, e, sticky, bl) : bl \in {BitLen(n)}})

\* An integer as a number.
FromInt(n) == Round(IF n < 0 THEN -1 ELSE 1, IF n < 0 THEN -n ELSE n, 0, 0)

\* The value of -a
Negated(a) == IF isNaN(a) \/ IsZero(a) THEN a ELSE [a EXCEPT !.s = -a.s]

\* -a
Neg(a) == Val({Negated(x) : x \in {a}})

\* The absolute value
Magnitude(a) == IF isNaN(a) THEN a ELSE [a EXCEPT !.s = 1]

\* Math.abs
Abs(a) == Val({Magnitude(x) : x \in {a}})

\* The product of two values
Product(a, b) ==
  IF isNaN(a) \/ isNaN(b) THEN NaN
  ELSE IF IsInf(a) \/ IsInf(b)
       THEN IF IsZero(a) \/ IsZero(b) THEN NaN ELSE Inf(a.s * b.s)
       ELSE Round(a.s * b.s, a.m * b.m, a.e + b.e, 0)

\* a * b
Mul(a, b) == Val({Product(x, y) : x \in {a}, y \in {b}})

\* The quotient of two values
Quotient(a, b) ==
  IF isNaN(a) \/ isNaN(b) THEN NaN
  ELSE IF IsInf(a) THEN (IF IsInf(b) THEN NaN ELSE Inf(a.s * b.s))
  ELSE IF IsInf(b) THEN Zero
  ELSE IF IsZero(b) THEN (IF IsZero(a) THEN NaN ELSE Inf(a.s * b.s))
  ELSE IF IsZero(a) THEN Zero
  ELSE LET n == a.m * 2^(Precision + 2)
       IN Round(a.s * b.s, n \div b.m, a.e - b.e - (Precision + 2),
                IF n % b.m = 0 THEN 0 ELSE 1)

\* a / b
Div(a, b) == Val({Quotient(x, y) : x \in {a}, y \in {b}})

\* The sum of two values
Sum(a, b) ==
  IF isNaN(a) \/ isNaN(b) THEN NaN
  ELSE IF IsInf(a) THEN (IF IsInf(b) /\ a.s # b.s THEN NaN ELSE a)
  ELSE IF IsInf(b) THEN b
  ELSE IF IsZero(a) THEN b
  ELSE IF IsZero(b) THEN a
  ELSE LET hi == IF a.e >= b.e THEN a ELSE b
           lo == IF a.e >= b.e THEN b ELSE a
           d == hi.e - lo.e
       IN IF d > Precision + 2 THEN hi
          ELSE LET n == hi.s * hi.m * 2^d + lo.s * lo.m
               IN Round(IF n < 0 THEN -1 ELSE 1, IF n < 0 THEN -n ELSE n, lo.e, 0)

\* a + b
Add(a, b) == Val({Sum(x, y) : x \in {a}, y \in {b}})

\* a - b
Sub(a, b) == Add(a, Neg(b))

\* The largest r (built from the bits bit, bit-1, .., 0 on top of r) with r*r <= n.
RECURSIVE ISqrt(_, _, _)
ISqrt(n, bit, r) ==
  IF bit < 0 THEN r
  ELSE Val({ISqrt(n, bit - 1, IF t * t <= n THEN t ELSE r) : t \in {r + 2^bit}})

\* The square root of a value
Root(a) ==
  IF isNaN(a) THEN NaN
  ELSE IF IsZero(a) THEN Zero
  ELSE IF a.s < 0 THEN NaN
  ELSE IF IsInf(a) THEN PosInf
  ELSE LET sh == IF (a.e - (Precision + 1)) % 2 = 0 THEN Precision + 1
                 ELSE Precision + 2
           n == a.m * 2^sh
       IN Val({Round(1, r, (a.e - sh) \div 2, IF r * r = n THEN 0 ELSE 1) :
                 r \in {ISqrt(n, Precision + 1, 0)}})

\* Math.sqrt
Sqrt(a) == Val({Root(x) : x \in {a}})

\* a ** 2
Sq(a) == Val({Product(x, x) : x \in {a}})

\* The order of two values
Less(a, b) ==
  IF isNaN(a) \/ isNaN(b) THEN FALSE
  ELSE IF IsInf(a) THEN a.s < 0 /\ ~(IsInf(b) /\ b.s < 0)
  ELSE IF IsInf(b) THEN b.s > 0
  ELSE IF IsZero(a) THEN ~IsZero(b) /\ b.s > 0
  ELSE IF IsZero(b) THEN a.s < 0
  ELSE IF a.s # b.s THEN a.s < b.s
  ELSE IF a.s > 0 THEN a.e < b.e \/ (a.e = b.e /\ a.m < b.m)
  ELSE a.e > b.e \/ (a.e = b.e /\ a.m > b.m)

\* a < b (false when either is NaN)
Lt(a, b) == \E x \in {a}, y \in {b} : Less(x, y)

\* a === b on numbers (false when either is NaN)
Eq(a, b) == \E x \in {a}, y \in {b} : ~isNaN(x) /\ ~isNaN(y) /\ x = y

\* a <= b
Le(a, b) == \E x \in {a}, y \in {b} : Less(x, y) \/ Eq(x, y)

\* a >= b
Ge(a, b) == Le(b, a)

\* The larger of two values, NaN when either is NaN.
Larger(a, b) == IF isNaN(a) \/ isNaN(b) THEN NaN ELSE IF Less(a, b) THEN b ELSE a

\* The largest of xs[i..Len(xs)]
RECURSIVE Largest(_, _)
Largest(xs, i) ==
  IF i = Len(xs) THEN xs[i]
  ELSE Val({Larger(xs[i], r) : r \in {Largest(xs, i + 1)}})

\* Math.max of a non-empty sequence of arguments: NaN when any is NaN.
MathMax(xs) == Val({Largest(v, 1) : v \in {xs}})

\* The smaller of two values, NaN when either is NaN.
Smaller(a, b) == IF isNaN(a) \/ isNaN(b) THEN NaN ELSE IF Less(b, a) THEN b ELSE a

\* Math.min of two numbers: NaN when either is NaN.
MathMin(a, b) == Val({Smaller(x, y) : x \in {a}, y \in {b}})

\* The quotient bits of r / d for d <= r < 2d: cnt more bits on top of q.
RECURSIVE LongDiv(_, _, _, _)
LongDiv(r, d, q, cnt) ==
  IF cnt = 0 THEN <<q, r>>
  ELSE IF r >= d THEN LongDiv(2 * (r - d), d, 2 * q + 1, cnt - 1)
  ELSE LongDiv(2 * r, d, 2 * q, cnt - 1)

\* r * 2^e = n with d <= r * 2^x < 2d found by doubling r (x, e going down).
RECURSIVE ScaleUp(_, _, _)
ScaleUp(r, d, e) == IF r >= d THEN <<r, e>> ELSE ScaleUp(2 * r, d, e - 1)

\* A decimal literal n / d (0 < n < d) as the nearest number, as the
\* language reads 1e-9 or 1e-3.
Literal(n, d) ==
  Val({Val({Round(1, qr[1], su[2] - (Precision + 1), IF qr[2] = 0 THEN 0 ELSE 1) :
              qr \in {LongDiv(su[1], d, 0, Precision + 2)}}) :
         su \in {ScaleUp(n, d, 0)}})


\* Number.isFinite
IsFinite(a) == a.k = "fin"

\* The text of a value with d fraction digits: "NaN", "Infinity" /
\* "-Infinity", or the decimal with d fraction digits nearest to |a| (the
\* larger on a tie), kept as the integer n = |a| * 10^d rounded, with a minus
\* sign when a < 0.
Fixed(a, d) ==
  IF isNaN(a) THEN [k |-> "NaN", neg |-> FALSE, n |-> 0, d |-> d]
  ELSE IF IsInf(a) THEN [k |-> "Infinity", neg |-> a.s < 0, n |-> 0, d |-> d]
  ELSE LET x == a.m * 10^d
           n == IF a.e >= 0 THEN x * 2^(a.e)
                ELSE IF -a.e > 30 THEN 0
                ELSE ((x \div 2^(-a.e - 1)) + 1) \div 2
       IN [k |-> "num", neg |-> a.s < 0, n |-> n, d |-> d]

\* Number.prototype.toFixed(d)
toFixed(a, d) == Val({Fixed(x, d) : x \in {a}})

-----------------------------------------------------------------------------
(* Literals of the source                                                  *)

One == FromInt(1)
Two == FromInt(2)
E9 == Literal(1, 1000000000)        \* 1e-9
E3 == Literal(1, 1000)              \* 1e-3
K1000 == FromInt(1000)              \* 1000
C2p2 == Div(FromInt(22), FromInt(10))   \* 2.2
C2p5 == Div(FromInt(5), Two)        \* 2.5
C1p5 == Div(FromInt(3), Two)        \* 1.5
\* Math.PI: the number nearest to pi (355/113 is within 3e-7 of pi)
MathPI == Div(FromInt(355), FromInt(113))

-----------------------------------------------------------------------------
(* The page: the input fields, the output fields, the canvas               *)

\* canvas.width and canvas.height (set by the page, not by the script)
canvasWidth == 8
canvasHeight == 4

\* What parseFloat can return for the text of each input field
\* (wavelength in nm; focal length, object distance and waist in mm).
LambdaValues == {NaN, PosInf, Zero, FromInt(500)}
FValues == {Zero, FromInt(50), FromInt(100)}
SValues == {NaN, FromInt(-200), FromInt(50), FromInt(100), FromInt(200)}
W0Values == {FromInt(-1), Zero, Div(FromInt(5), FromInt(100)), Div(One, Two)}

InputKeys == {"lambda", "f", "s", "w0"}
FieldValues(key) ==
  CASE key = "lambda" -> LambdaValues
    [] key = "f" -> FValues
    [] key = "s" -> SValues
    [] key = "w0" -> W0Values

OutputKeys == {"s_prime", "w0_prime", "zr_in", "zr_prime", "theta_in", "theta_prime"}

\* The text an output field holds before the script has written it.
Unwritten == [k |-> "unwritten", neg |-> FALSE, n |-> 0, d |-> 0]

\* A 2D context as getContext("2d") returns it.
FreshContext ==
  [strokeStyle |-> "#000000", fillStyle |-> "#000000", lineWidth |-> 1,
   font |-> "10px sans-serif", textAlign |-> "start", path |-> <<>>]

VARIABLES
  pc,        \* "load": DOMContentLoaded's callback has not made its initial call yet
  inputs,    \* the parsed value of each input field
  outputs,   \* the textContent of each output field
  ctx,       \* the drawing state of the 2D context
  canvas,    \* what is painted on the canvas since it was last cleared
  trace,     \* the DOM writes and canvas calls of the latest update cycle
  params,    \* the argument of the latest drawCanvas call
  lastValid  \* history: the latest input tuple the guards of lines 33-34
             \* let through

vars == <<pc, inputs, outputs, ctx, canvas, trace, params, lastValid>>

NoParams == [drawn |-> FALSE]
NoInput == [lambda |-> NaN, f |-> NaN, s |-> NaN, w0 |-> NaN]

-----------------------------------------------------------------------------
(* updateVisualization: inputs and calculation                             *)

\* The guards with < written for <= in line 34.
PassesGuardStrict(lambda, f, s, w0) ==
  /\ ~(isNaN(lambda) \/ isNaN(f) \/ isNaN(s) \/ isNaN(w0))
  /\ ~(Lt(w0, Zero) \/ Lt(lambda, Zero) \/ Lt(f, Zero))

\* The guards of lines 33-34 on the converted values: TRUE when the cycle goes on.
PassesGuard(lambda, f, s, w0) ==
  /\ ~(isNaN(lambda) \/ isNaN(f) \/ isNaN(s) \/ isNaN(w0))
  /\ ~(Le(w0, Zero) \/ Le(lambda, Zero) \/ Le(f, Zero))

\* Line 50 with alpha written for alpha ** 2.
OutputWaistNotSquared(f, alpha, s) == Add(f, Mul(alpha, Sub(Neg(s), f)))

\* Line 50: the output waist position
OutputWaistPosition(f, alpha, s) == Add(f, Mul(Sq(alpha), Sub(Neg(s), f)))

\* Lines 26-57: the converted inputs and the derived beam parameters.
Calculate(inp) ==
  LET lambda == Mul(inp.lambda, E9)
      f == Mul(inp.f, E3)
      s == Mul(Neg(inp.s), E3)
      w0 == Mul(inp.w0, E3)
      zr == Div(Mul(MathPI, Sq(w0)), lambda)
      w0_prime == Div(Mul(w0, f), Sqrt(Add(Sq(Add(s, f)), Sq(zr))))
      alpha == Div(w0_prime, w0)
      s_prime == OutputWaistPosition(f, alpha, s)
      theta_in == Div(lambda, Mul(MathPI, w0))
      theta_prime == Div(theta_in, alpha)
      zr_prime == Mul(Sq(alpha), zr)
  IN [passes |-> PassesGuard(lambda, f, s, w0),
      lambda |-> lambda, f |-> f, s |-> s, w0 |-> w0, zr |-> zr,
      w0_prime |-> w0_prime, alpha |-> alpha, s_prime |-> s_prime,
      theta_in |-> theta_in, theta_prime |-> theta_prime, zr_prime |-> zr_prime]

-----------------------------------------------------------------------------
(* drawCanvas: layout                                                      *)

\* Lines 94-95 without the two Math.abs terms.
TotalDistNoAbs(p) == Mul(MathMax(<<Neg(p.s), p.s_prime, p.f>>), C2p2)

\* Lines 94-95
totalDist(p) ==
  Mul(MathMax(<<Neg(p.s), p.s_prime, p.f, Abs(Add(p.s, p.f)),
                Abs(Sub(p.s_prime, p.f))>>), C2p2)

\* The beam radius law of lines 100, 102, 142 and 154
BeamRadius(waistRadius, z, waistPos, rayleighRange) ==
  Mul(waistRadius, Sqrt(Add(One, Sq(Div(Sub(z, waistPos), rayleighRange)))))

\* Line 104
scaleY(maxHeight) == Div(FromInt(canvasHeight), Mul(maxHeight, C2p5))

\* Line 116 with Math.max written for Math.min.
LensHeightMax(maxHeight, sY) ==
  MathMax(<<Mul(Mul(maxHeight, sY), C1p5), Div(FromInt(canvasHeight), C2p2)>>)

\* Line 116
lensHeight(maxHeight, sY) ==
  MathMin(Mul(Mul(maxHeight, sY), C1p5), Div(FromInt(canvasHeight), C2p2))

\* Lines 99-103
maxHeightOf(p, T) ==
  LET beamWidthAtStart == BeamRadius(p.w0, Div(Neg(T), Two), p.s, p.zr)
      beamWidthAtEnd == BeamRadius(p.w0_prime, Div(T, Two), p.s_prime, p.zr_prime)
  IN MathMax(<<beamWidthAtStart, beamWidthAtEnd>>)

\* Lines 89-106 and 116: the coordinate system drawCanvas sets up.
Layout(p) ==
  Val({Val({Val({[opticalAxisY |-> Div(FromInt(canvasHeight), Two),
                  totalDist |-> T,
                  scaleX |-> Div(FromInt(canvasWidth), T),
                  maxHeight |-> maxHeight,
                  scaleY |-> sY,
                  lensX |-> Div(FromInt(canvasWidth), Two),
                  lensHeight |-> lensHeight(maxHeight, sY)] :
                   sY \in {scaleY(maxHeight)}}) :
              maxHeight \in {maxHeightOf(p, T)}}) :
         T \in {totalDist(p)}})

-----------------------------------------------------------------------------
(* drawBeam                                                                *)
(* The script's effect on the page is the sequence of calls it makes:      *)
(* <<"textContent", key, text>>, <<"clearRect">>, <<"beginPath">>,         *)
(* <<"moveTo", x, y>>, <<"lineTo", x, y>>, <<"closePath">>,                *)
(* <<"set", property, value>>, <<"stroke">>, <<"fill">>,                   *)
(* <<"fillText", label, x, y>>.                                            *)

\* One sample of a loop of drawBeam: z, x_canvas and w_z * scaleY.
Sample(b, L, z) ==
  [z |-> z,
   x |-> Add(L.lensX, Mul(z, L.scaleX)),
   r |-> Mul(BeamRadius(b.waistRadius, z, b.waistPos, b.rayleighRange), L.scaleY)]

\* Lines 139-149: the samples of the top loop, z going up from startZ by 1/scaleX.
RECURSIVE TopSamples(_, _, _)
TopSamples(b, L, z) ==
  IF Le(z, b.endZ)
  THEN Val({<<Sample(b, L, z)>> \o TopSamples(b, L, next) :
              next \in {Add(z, Div(One, L.scaleX))}})
  ELSE <<>>

\* Lines 151-157: the samples of the bottom loop, z going down from endZ.
RECURSIVE BottomSamples(_, _, _)
BottomSamples(b, L, z) ==
  IF Ge(z, b.startZ)
  THEN Val({<<Sample(b, L, z)>> \o BottomSamples(b, L, next) :
              next \in {Sub(z, Div(One, L.scaleX))}})
  ELSE <<>>

\* Lines 143-148: the top loop's calls, moveTo for a sample at startZ
TopCalls(b, L) ==
  Val({[i \in 1..Len(vs) |->
          <<IF Eq(vs[i].z, b.startZ) THEN "moveTo" ELSE "lineTo",
            vs[i].x, Sub(L.opticalAxisY, vs[i].r)>>] :
         vs \in {TopSamples(b, L, b.startZ)}})

\* Lines 155-156: the bottom loop's calls
BottomCalls(b, L) ==
  Val({[i \in 1..Len(vs) |-> <<"lineTo", vs[i].x, Add(L.opticalAxisY, vs[i].r)>>] :
         vs \in {BottomSamples(b, L, b.endZ)}})

\* Line 159: the fill style of a beam envelope
BeamFillStyle(b) == "rgba(255, 100, 100, 0.3)"

\* Lines 136-161
drawBeam(b, L) ==
  << <<"beginPath">> >> \o TopCalls(b, L) \o BottomCalls(b, L) \o
  << <<"closePath">>, <<"set", "fillStyle", BeamFillStyle(b)>>, <<"fill">> >>

\* Line 164: the arguments of the input beam's drawBeam call
InputBeam(p, L) ==
  [which |-> "input", waistPos |-> p.s, waistRadius |-> p.w0, rayleighRange |-> p.zr,
   startZ |-> Div(Neg(L.totalDist), Two), endZ |-> Zero]

\* Line 165: the arguments of the output beam's drawBeam call
OutputBeam(p, L) ==
  [which |-> "output", waistPos |-> p.s_prime, waistRadius |-> p.w0_prime,
   rayleighRange |-> p.zr_prime, startZ |-> Zero, endZ |-> Div(L.totalDist, Two)]

-----------------------------------------------------------------------------
(* drawCanvas                                                              *)

\* Lines 173-189
drawAnnotationLine(x1, y1, x2, y2, label) ==
  << <<"beginPath">>,
     <<"moveTo", x1, y1>>,
     <<"lineTo", x2, y2>>,
     <<"set", "strokeStyle", "#333">>,
     <<"stroke">>,
     <<"moveTo", x1, Sub(y1, FromInt(5))>>,
     <<"lineTo", x1, Add(y1, FromInt(5))>>,
     <<"moveTo", x2, Sub(y2, FromInt(5))>>,
     <<"lineTo", x2, Add(y2, FromInt(5))>>,
     <<"set", "strokeStyle", "#555">>,
     <<"stroke">>,
     <<"fillText", label, Div(Add(x1, x2), Two), Sub(y1, FromInt(8))>> >>

\* Lines 109-113: the optical axis
DrawAxis(L) ==
  << <<"beginPath">>,
     <<"moveTo", Zero, L.opticalAxisY>>,
     <<"lineTo", FromInt(canvasWidth), L.opticalAxisY>>,
     <<"set", "strokeStyle", "black">>,
     <<"stroke">> >>

\* Line 121: the line width of the lens
LensLineWidth == 2

\* Line 133 left out: the line width stays the lens's.
LineWidthNotReset == LensLineWidth

\* Line 133: the line width set after the lens is drawn
LineWidthAfterLens == 1

\* Lines 116-133: the lens and its arrow ticks
DrawLens(L) ==
  LET top == Sub(L.opticalAxisY, L.lensHeight)
      bot == Add(L.opticalAxisY, L.lensHeight)
  IN << <<"beginPath">>,
        <<"moveTo", L.lensX, top>>,
        <<"lineTo", L.lensX, bot>>,
        <<"set", "strokeStyle", "#4A90E2">>,
        <<"set", "lineWidth", LensLineWidth>>,
        <<"stroke">>,
        <<"moveTo", L.lensX, top>>,
        <<"lineTo", Add(L.lensX, FromInt(5)), Add(top, FromInt(10))>>,
        <<"moveTo", L.lensX, top>>,
        <<"lineTo", Sub(L.lensX, FromInt(5)), Add(top, FromInt(10))>>,
        <<"moveTo", L.lensX, bot>>,
        <<"lineTo", Add(L.lensX, FromInt(5)), Sub(bot, FromInt(10))>>,
        <<"moveTo", L.lensX, bot>>,
        <<"lineTo", Sub(L.lensX, FromInt(5)), Sub(bot, FromInt(10))>>,
        <<"stroke">>,
        <<"set", "lineWidth", LineWidthAfterLens>> >>

\* Lines 164-165: the two beam envelopes
DrawBeams(p, L) ==
  Val({drawBeam(b, L) : b \in {InputBeam(p, L)}}) \o
  Val({drawBeam(b, L) : b \in {OutputBeam(p, L)}})

\* Lines 168-224: the text settings and the four dimension lines
DrawDimensions(p, L) ==
  LET y40 == Add(L.opticalAxisY, FromInt(40))
      y60 == Add(L.opticalAxisY, FromInt(60))
      f_y_offset == Sub(L.opticalAxisY, FromInt(50))
      fLabel == <<"f = ", toFixed(Mul(p.f, K1000), 1), " mm">>
  IN << <<"set", "font", "12px Arial">>,
        <<"set", "fillStyle", "black">>,
        <<"set", "textAlign", "center">> >> \o
     drawAnnotationLine(Add(L.lensX, Mul(p.s, L.scaleX)), y40, L.lensX, y40,
       <<"s = ", toFixed(Mul(Neg(p.s), K1000), 1), " mm">>) \o
     drawAnnotationLine(L.lensX, y60, Add(L.lensX, Mul(p.s_prime, L.scaleX)), y60,
       <<"s' = ", toFixed(Mul(p.s_prime, K1000), 1), " mm">>) \o
     drawAnnotationLine(Sub(L.lensX, Mul(p.f, L.scaleX)), f_y_offset,
       L.lensX, f_y_offset, fLabel) \o
     drawAnnotationLine(L.lensX, Sub(f_y_offset, FromInt(20)),
       Add(L.lensX, Mul(p.f, L.scaleX)), Sub(f_y_offset, FromInt(20)), fLabel)

\* Lines 226-248: the two waist markers with their values
DrawWaists(p, L) ==
  LET w0_x == Add(L.lensX, Mul(p.s, L.scaleX))
      w0_y == L.opticalAxisY
      w0_prime_x == Add(L.lensX, Mul(p.s_prime, L.scaleX))
      w0_prime_y == L.opticalAxisY
  IN << <<"beginPath">>,
        <<"moveTo", w0_x, Sub(w0_y, Mul(p.w0, L.scaleY))>>,
        <<"lineTo", w0_x, Add(w0_y, Mul(p.w0, L.scaleY))>>,
        <<"set", "strokeStyle", "red">>,
        <<"stroke">>,
        <<"set", "textAlign", "left">>,
        <<"fillText", <<"w0 = ", toFixed(Mul(p.w0, K1000), 3), " mm">>,
          Add(w0_x, FromInt(8)), Sub(w0_y, FromInt(5))>>,
        <<"beginPath">>,
        <<"moveTo", w0_prime_x, Sub(w0_prime_y, Mul(p.w0_prime, L.scaleY))>>,
        <<"lineTo", w0_prime_x, Add(w0_prime_y, Mul(p.w0_prime, L.scaleY))>>,
        <<"set", "strokeStyle", "blue">>,
        <<"stroke">>,
        <<"fillText", <<"w0' = ", toFixed(Mul(p.w0_prime, K1000), 3), " mm">>,
          Add(w0_prime_x, FromInt(8)), Sub(w0_prime_y, FromInt(5))>> >>

\* Lines 250-272: Rayleigh ranges and divergence angles above each half
DrawTopLabels(p, L) ==
  LET textY == FromInt(30)
  IN << <<"set", "textAlign", "center">>,
        <<"fillText", <<"zR = ", toFixed(Mul(p.zr, K1000), 2), " mm">>,
          Div(L.lensX, Two), textY>>,
        <<"fillText", <<"theta = ", toFixed(Mul(p.theta_in, K1000), 3), " mrad">>,
          Div(L.lensX, Two), Add(textY, FromInt(18))>>,
        <<"fillText", <<"zR' = ", toFixed(Mul(p.zr_prime, K1000), 2), " mm">>,
          Add(L.lensX, Div(L.lensX, Two)), textY>>,
        <<"fillText", <<"theta' = ", toFixed(Mul(p.theta_prime, K1000), 3), " mrad">>,
          Add(L.lensX, Div(L.lensX, Two)), Add(textY, FromInt(18))>> >>

\* drawCanvas with the beams (lines 164-165) moved behind the annotations.
drawCanvasBeamsLast(p) ==
  Val({<< <<"clearRect">> >> \o DrawAxis(L) \o DrawLens(L) \o
       DrawDimensions(p, L) \o DrawWaists(p, L) \o DrawTopLabels(p, L) \o
       DrawBeams(p, L) : L \in {Layout(p)}})

\* Lines 82-273: the calls of drawCanvas, in order
drawCanvas(p) ==
  Val({<< <<"clearRect">> >> \o DrawAxis(L) \o DrawLens(L) \o DrawBeams(p, L) \o
       DrawDimensions(p, L) \o DrawWaists(p, L) \o DrawTopLabels(p, L) :
         L \in {Layout(p)}})

-----------------------------------------------------------------------------
(* updateVisualization                                                     *)

\* Lines 60-65: the six output fields, in the order they are written
OutputWrites(p) ==
  << <<"textContent", "s_prime", toFixed(Mul(p.s_prime, K1000), 2)>>,
     <<"textContent", "w0_prime", toFixed(Mul(p.w0_prime, K1000), 3)>>,
     <<"textContent", "zr_in", toFixed(Mul(p.zr, K1000), 2)>>,
     <<"textContent", "zr_prime", toFixed(Mul(p.zr_prime, K1000), 2)>>,
     <<"textContent", "theta_in", toFixed(Mul(p.theta_in, K1000), 3)>>,
     <<"textContent", "theta_prime", toFixed(Mul(p.theta_prime, K1000), 3)>> >>

\* Lines 23-80: the calls of one update cycle with the input fields holding
\* inp (none when a guard returns), and the argument of drawCanvas.
updateVisualization(inp) ==
  Val({IF ~p.passes THEN [passes |-> FALSE, calls |-> <<>>]
       ELSE [passes |-> TRUE, calls |-> OutputWrites(p) \o drawCanvas(p), p |-> p] :
         p \in {Calculate(inp)}})

\* The calls of a cycle depend on the input tuple alone: updateVisualization
\* tabulated over the input tuples.
AllInputs == [lambda : LambdaValues, f : FValues, s : SValues, w0 : W0Values]
CycleTable == {<<inp, updateVisualization(inp)>> : inp \in AllInputs}
CycleOf(inp) == (CHOOSE row \in CycleTable : row[1] = inp)[2]

-----------------------------------------------------------------------------
(* The effect of the calls on the page [outputs, ctx, canvas]              *)

\* One call.  moveTo and lineTo return at once when a coordinate is not
\* finite; a lineTo on a path with no subpath starts one; closePath does
\* nothing on a path with no subpath; stroke and fill paint the current path
\* with the current styles; fillText paints nothing at a non-finite place.
Exec(page, c) ==
  LET cx == page.ctx
  IN CASE c[1] = "textContent" -> [page EXCEPT !.outputs[c[2]] = c[3]]
       [] c[1] = "clearRect" -> [page EXCEPT !.canvas = <<>>]
       [] c[1] = "beginPath" -> [page EXCEPT !.ctx.path = <<>>]
       [] c[1] = "moveTo" ->
            IF IsFinite(c[2]) /\ IsFinite(c[3])
            THEN [page EXCEPT !.ctx.path = Append(@, <<"M", c[2], c[3]>>)]
            ELSE page
       [] c[1] = "lineTo" ->
            IF IsFinite(c[2]) /\ IsFinite(c[3])
            THEN [page EXCEPT !.ctx.path =
                    Append(@, <<IF cx.path = <<>> THEN "M" ELSE "L", c[2], c[3]>>)]
            ELSE page
       [] c[1] = "closePath" ->
            IF cx.path = <<>> THEN page
            ELSE [page EXCEPT !.ctx.path = Append(@, <<"Z">>)]
       [] c[1] = "set" -> [page EXCEPT !.ctx[c[2]] = c[3]]
       [] c[1] = "stroke" ->
            [page EXCEPT !.canvas =
               Append(@, <<"stroke", cx.strokeStyle, cx.lineWidth, cx.path>>)]
       [] c[1] = "fill" ->
            [page EXCEPT !.canvas = Append(@, <<"fill", cx.fillStyle, cx.path>>)]
       [] c[1] = "fillText" ->
            IF IsFinite(c[3]) /\ IsFinite(c[4])
            THEN [page EXCEPT !.canvas =
                    Append(@, <<"fillText", cx.fillStyle, cx.font, cx.textAlign,
                                c[2], c[3], c[4]>>)]
            ELSE page

\* The calls calls[lo..hi] made in order on the page: the second half on
\* the page the first half has left.
RECURSIVE Run(_, _, _, _)
Run(page, calls, lo, hi) ==
  IF lo > hi THEN page
  ELSE IF lo = hi THEN Exec(page, calls[lo])
  ELSE Val({Run(half, calls, ((lo + hi) \div 2) + 1, hi) :
              half \in {Run(page, calls, lo, (lo + hi) \div 2)}})

-----------------------------------------------------------------------------
(* The state machine                                                       *)

Init ==
  /\ pc = "load"
  /\ inputs \in AllInputs
  /\ outputs = [key \in OutputKeys |-> Unwritten]
  /\ ctx = FreshContext
  /\ canvas = <<>>
  /\ trace = <<>>
  /\ params = NoParams
  /\ lastValid = NoInput

\* One run of the handler with the input fields holding inp.
Cycle(inp) ==
  \E c \in {CycleOf(inp)} :
    \E r \in {Run([outputs |-> outputs, ctx |-> ctx, canvas |-> canvas],
                  c.calls, 1, Len(c.calls))} :
      /\ outputs' = r.outputs
      /\ ctx' = r.ctx
      /\ canvas' = r.canvas
      /\ trace' = c.calls
      /\ params' = IF c.passes THEN [drawn |-> TRUE, p |-> c.p] ELSE params
      /\ lastValid' = IF c.passes THEN inp ELSE lastValid

\* Line 281: the initial call at page load
InitialCall ==
  /\ pc = "load"
  /\ pc' = "ready"
  /\ UNCHANGED inputs
  /\ Cycle(inputs)

\* Lines 276-278: an input event on one field, whose text now parses to v
InputEvent(key, v) ==
  /\ pc = "ready"
  /\ inputs' = [inputs EXCEPT ![key] = v]
  /\ UNCHANGED pc
  /\ Cycle(inputs')

Next ==
  \/ InitialCall
  \/ \E key \in InputKeys : \E v \in FieldValues(key) : InputEvent(key, v)

Spec == Init /\ [][Next]_vars

-----------------------------------------------------------------------------
(* Properties                                                              *)

\* The data-model invariant of a beam input, on the parsed field values: all
\* four finite, wavelength, focal length and waist strictly positive.
ValidBeamInput(inp) ==
  /\ \A key \in InputKeys : IsFinite(inp[key])
  /\ Lt(Zero, inp.lambda) /\ Lt(Zero, inp.f) /\ Lt(Zero, inp.w0)

\* The rejected case as the parsed values show it: some field is NaN, or
\* wavelength, focal length or waist is <= 0.
RejectedCase(inp) ==
  \/ \E key \in InputKeys : isNaN(inp[key])
  \/ Le(inp.lambda, Zero) \/ Le(inp.f, Zero) \/ Le(inp.w0, Zero)

\* The latest cycle drew, and it ran on a valid beam input.
DrewValid == trace # <<>> /\ ValidBeamInput(inputs)

\* The page before any cycle.
FreshPage ==
  [outputs |-> [key \in OutputKeys |-> Unwritten], ctx |-> FreshContext, canvas |-> <<>>]

\* The fills painted on the canvas, in order.
Fills == SelectSeq(canvas, LAMBDA op : op[1] = "fill")

\* The vertices of a painted path.
Vertices(path) == SelectSeq(path, LAMBDA seg : seg[1] # "Z")

\* C1: a cycle on an input with a NaN field or with wavelength, focal length
\* or waist <= 0 writes no output field and neither clears nor draws (outputs
\* and canvas as before, no call made); a cycle on any other input writes all
\* six output fields, clears the canvas and draws on it.
C1_UpdateIffNotRejected ==
  [][IF RejectedCase(inputs')
     THEN outputs' = outputs /\ canvas' = canvas /\ trace' = <<>>
     ELSE /\ \A key \in OutputKeys :
               \E i \in 1..Len(trace') :
                 trace'[i][1] = "textContent" /\ trace'[i][2] = key
          /\ \E i \in 1..Len(trace') : trace'[i][1] = "clearRect"
          /\ canvas' # <<>>]_vars

\* C1: an input event with a rejected value arrived while the page showed a
\* drawing, and left it.
C1_Witness ==
  pc = "ready" /\ RejectedCase(inputs) /\ trace = <<>> /\ canvas # <<>>

\* C2: at any time the output fields and the canvas equal what one cycle on
\* the latest accepted input tuple produces on a fresh page (same texts, same
\* painted paths and labels with the same styles); untouched when no input
\* has been accepted yet.
C2_DisplayOfLatestAccepted ==
  IF lastValid = NoInput
  THEN outputs = FreshPage.outputs /\ canvas = <<>>
  ELSE LET calls == CycleOf(lastValid).calls
           fresh == Run(FreshPage, calls, 1, Len(calls))
       IN outputs = fresh.outputs /\ canvas = fresh.canvas

\* C2: a rejected input event came after an accepted one, on a context the
\* earlier cycle left its styles in.
C2_Witness ==
  /\ pc = "ready" /\ lastValid # NoInput /\ inputs # lastValid
  /\ ctx # FreshContext /\ canvas # <<>>

\* C3: whenever the output fields are written, the input is a valid beam
\* input: all four values finite, wavelength, focal length and waist > 0.
C3_CalculatedOnlyOnFinite == trace # <<>> => ValidBeamInput(inputs)

\* C4: for a valid input every vertex of the two filled envelopes has its y
\* coordinate inside [0, canvasHeight].
C4_NoClipping ==
  DrewValid =>
    \A i \in 1..Len(Fills) :
      LET vs == Vertices(Fills[i][3])
      IN \A j \in 1..Len(vs) :
           Le(Zero, vs[j][3]) /\ Le(vs[j][3], FromInt(canvasHeight))

\* C5: for a valid input totalDist is strictly positive, the x positions of
\* the input waist, the output waist and both focal points lie strictly
\* inside (0, canvasWidth), and 2.2 times each of |s|, |s'| and f is at most
\* totalDist.
C5_FeaturesInsideCanvas ==
  DrewValid =>
    LET p == params.p
        L == Layout(p)
        Inside(x) == Lt(Zero, x) /\ Lt(x, FromInt(canvasWidth))
    IN /\ Lt(Zero, L.totalDist)
       /\ Inside(Add(L.lensX, Mul(p.s, L.scaleX)))
       /\ Inside(Add(L.lensX, Mul(p.s_prime, L.scaleX)))
       /\ Inside(Sub(L.lensX, Mul(p.f, L.scaleX)))
       /\ Inside(Add(L.lensX, Mul(p.f, L.scaleX)))
       /\ Le(Mul(Abs(p.s), C2p2), L.totalDist)
       /\ Le(Mul(Abs(p.s_prime), C2p2), L.totalDist)
       /\ Le(Mul(p.f, C2p2), L.totalDist)

\* C5: a valid input whose output waist lies before the lens (s' < 0).
C5_Witness == DrewValid /\ Lt(params.p.s_prime, Zero)

\* C6: for a valid input and each beam, every vertex of the top loop has a
\* vertex of the bottom loop at the same x with the opposite offset from the
\* optical axis, and conversely.
C6_EnvelopeSymmetric ==
  DrewValid =>
    LET p == params.p
        L == Layout(p)
        Mirrored(b) ==
          LET top == TopCalls(b, L)
              bot == BottomCalls(b, L)
              Opposite(u, v) ==
                u[2] = v[2] /\ Sub(u[3], L.opticalAxisY) = Neg(Sub(v[3], L.opticalAxisY))
          IN /\ \A i \in 1..Len(top) : \E j \in 1..Len(bot) : Opposite(top[i], bot[j])
             /\ \A j \in 1..Len(bot) : \E i \in 1..Len(top) : Opposite(top[i], bot[j])
    IN Mirrored(InputBeam(p, L)) /\ Mirrored(OutputBeam(p, L))

\* C7: in every redraw the two envelopes are filled with different styles.
C7_DistinctTints ==
  canvas # <<>> => Len(Fills) = 2 /\ Fills[1][2] # Fills[2][2]

\* Sixteen units of roundoff of the arithmetic: two ways of computing the
\* same quantity in a dozen operations may differ by that fraction of it.
RoundOff == Div(FromInt(16), FromInt(2 ^ Precision))

\* a and b agree up to roundoff, relative to scale.
Near(a, b, scale) == Le(Abs(Sub(a, b)), Mul(Abs(scale), RoundOff))

\* C8: for a valid input, with D = (s+f)^2 + zR^2: the output waist position
\* agrees with f + f^2*(-s-f)/D and alpha^2 * D with f^2 (up to the roundoff
\* of the arithmetic), zR' is alpha^2 * zR, and with the waist at the front
\* focal point (s = -f) the position is f exactly and alpha agrees with f/zR.
C8_ClosedForm ==
  DrewValid =>
    LET p == params.p
        D == Add(Sq(Add(p.s, p.f)), Sq(p.zr))
        term == Div(Mul(Sq(p.f), Sub(Neg(p.s), p.f)), D)
    IN /\ p.zr = Div(Mul(MathPI, Sq(p.w0)), p.lambda)
       /\ Near(p.s_prime, Add(p.f, term), MathMax(<<p.f, Abs(term)>>))
       /\ Near(Mul(Sq(p.alpha), D), Sq(p.f), Sq(p.f))
       /\ p.zr_prime = Mul(Sq(p.alpha), p.zr)
       /\ p.s = Neg(p.f) =>
            p.s_prime = p.f /\ Near(p.alpha, Div(p.f, p.zr), p.alpha)

\* C8: a valid input with the waist at the front focal point, and one drawn.
C8_Witness == DrewValid /\ params.p.s = Neg(params.p.f)

\* C9: in a cycle on a valid input the first six calls write the six output
\* fields, the seventh is the only clearRect, and the paintings follow in the
\* order axis line, lens line, lens ticks, input envelope fill, output
\* envelope fill, and only then the strokes and texts of the annotations.
C9_FixedOrder ==
  DrewValid =>
    LET L == Layout(params.p)
        LeftOf(path) == \A k \in 1..Len(Vertices(path)) : Le(Vertices(path)[k][2], L.lensX)
        RightOf(path) == \A k \in 1..Len(Vertices(path)) : Le(L.lensX, Vertices(path)[k][2])
    IN /\ Len(trace) > 7
       /\ \A i \in 1..6 : trace[i][1] = "textContent"
       /\ {trace[i][2] : i \in 1..6} = OutputKeys
       /\ \A i \in 1..Len(trace) : trace[i][1] = "clearRect" <=> i = 7
       /\ Len(canvas) > 5
       /\ canvas[1] = <<"stroke", "black", 1,
                        << <<"M", Zero, L.opticalAxisY>>,
                           <<"L", FromInt(canvasWidth), L.opticalAxisY>> >> >>
       /\ canvas[2][1] = "stroke" /\ canvas[2][2] = "#4A90E2"
       /\ Len(canvas[2][4]) = 2
       /\ \A k \in 1..2 : canvas[2][4][k][2] = L.lensX
       /\ canvas[3][1] = "stroke" /\ canvas[3][2] = "#4A90E2"
       /\ Len(canvas[3][4]) = 10
       /\ canvas[4][1] = "fill" /\ LeftOf(canvas[4][3]) /\ ~RightOf(canvas[4][3])
       /\ canvas[5][1] = "fill" /\ RightOf(canvas[5][3]) /\ ~LeftOf(canvas[5][3])
       /\ \A i \in 6..Len(canvas) : canvas[i][1] \in {"stroke", "fillText"}
       /\ \E i \in 6..Len(canvas) : canvas[i][1] = "fillText"

\* C9: a cycle on a valid input has painted annotations over two envelopes.
C9_Witness == DrewValid /\ Len(canvas) > 5 /\ Len(Fills) = 2

\* C10: for a valid input the beam-proportional term maxHeight*scaleY*1.5
\* exceeds the cap canvasHeight/2.2, the lens half-height is the cap, and the
\* lens line is drawn from that far above the optical axis to that far below.
C10_LensHeightConstant ==
  DrewValid =>
    LET L == Layout(params.p)
        cap == Div(FromInt(canvasHeight), C2p2)
    IN /\ Lt(cap, Mul(Mul(L.maxHeight, L.scaleY), C1p5))
       /\ L.lensHeight = cap
       /\ canvas[2][4] = << <<"M", L.lensX, Sub(L.opticalAxisY, cap)>>,
                            <<"L", L.lensX, Add(L.opticalAxisY, cap)>> >>

\* C10: two valid inputs of different beam size were drawn: this one has the
\* smaller waist.
C10_Witness == DrewValid /\ Lt(inputs.w0, Div(One, Two)) /\ Len(canvas) > 2

====
